---- MODULE Spec2Model ----
(***************************************************************************)
(* Model of src/components/notion/NotionBlockRenderer.tsx: the two pure    *)
(* render functions NotionBlockRenderer and NotionText.                    *)
(*                                                                         *)
(* JavaScript objects are records; an optional property that is missing is *)
(* a field that is not in the record's DOMAIN.  Markup fragments are       *)
(* records with a tag and an ordered sequence of kids.  A thrown TypeError *)
(* is the fragment Fault, which every enclosing fragment propagates.       *)
(* URL strings are sequences of characters so that split() is computed.    *)
(***************************************************************************)
EXTENDS Integers, Sequences, FiniteSets, TLC

VARIABLES op, props, result

vars == <<op, props, result>>

-----------------------------------------------------------------------------
(* Bounds of the checked input space *)

MaxRuns == 2
MaxUrlLen == 4
MaxRows == 3
MaxCells == 2
MaxChildren == 2

-----------------------------------------------------------------------------
(* JavaScript values *)

Undefined == [undefined |-> TRUE]
Null == [null |-> TRUE]
Fault == [tag |-> "FAULT"]
NullNode == [tag |-> "null"]

Has(obj, f) == f \in DOMAIN obj
IsObject(v) == v # Undefined /\ v # Null

Text(s) == [tag |-> "#text", data |-> s]
UrlText(chars) == [tag |-> "#text", chars |-> chars]

AnyFault(kids) == \E i \in DOMAIN kids : kids[i] = Fault

El(tag, kids) == IF AnyFault(kids) THEN Fault ELSE [tag |-> tag, kids |-> kids]

With(el, attrs) == IF el = Fault THEN Fault ELSE attrs @@ el

-----------------------------------------------------------------------------
(* String.prototype.split on a one-character separator *)

RECURSIVE split(_, _)
split(s, sep) ==
  IF \E i \in 1..Len(s) : s[i] = sep
  THEN LET i == CHOOSE k \in 1..Len(s) : s[k] = sep /\ \A j \in 1..(k-1) : s[j] # sep
       IN <<SubSeq(s, 1, i-1)>> \o split(SubSeq(s, i+1, Len(s)), sep)
  ELSE <<s>>

-----------------------------------------------------------------------------
(* NotionText *)

\* a faulty variant of clsx: the code trait replaces the other traits
clsx_exclusive(annotations) ==
  IF annotations.code
  THEN {"font-mono text-sm bg-gray-200 dark:bg-gray-700 text-gray-800 dark:text-gray-200 px-1 py-0.5 rounded"}
  ELSE (IF annotations.bold THEN {"font-bold"} ELSE {})
       \cup (IF annotations.italic THEN {"italic"} ELSE {})
       \cup (IF annotations.strikethrough THEN {"line-through"} ELSE {})
       \cup (IF annotations.underline THEN {"underline"} ELSE {})

clsx(annotations) ==
  (IF annotations.bold THEN {"font-bold"} ELSE {})
  \cup (IF annotations.code
        THEN {"font-mono text-sm bg-gray-200 dark:bg-gray-700 text-gray-800 dark:text-gray-200 px-1 py-0.5 rounded"}
        ELSE {})
  \cup (IF annotations.italic THEN {"italic"} ELSE {})
  \cup (IF annotations.strikethrough THEN {"line-through"} ELSE {})
  \cup (IF annotations.underline THEN {"underline"} ELSE {})

spanStyle(color) == IF color # "default" THEN {<<"color", color>>} ELSE {}

textContent(textItem) ==
  IF textItem.type = "equation"
  THEN [tag |-> "InlineMath",
        data |-> IF Has(textItem, "equation") /\ IsObject(textItem.equation)
                 THEN textItem.equation.expression ELSE ""]
  ELSE Text(textItem.plain_text)

textLink(href, content) ==
  IF href # Null /\ href.str # <<>>
  THEN [tag |-> "a", href |-> href,
        className |-> {"text-blue-600 hover:underline dark:text-blue-400"},
        kids |-> <<content>>]
  ELSE content

textSpan(textItem, index) ==
  [tag |-> "span", key |-> index,
   className |-> clsx(textItem.annotations),
   style |-> spanStyle(textItem.annotations.color),
   kids |-> <<textLink(textItem.href, textContent(textItem))>>]

\* a faulty variant of NotionText: an absent input is rendered like an empty one
NotionText_absentAsEmpty(p) ==
  [tag |-> "<>",
   kids |-> IF Has(p, "textItems")
            THEN [i \in 1..Len(p.textItems) |-> textSpan(p.textItems[i], i - 1)]
            ELSE <<>>]

NotionText(p) ==
  IF ~Has(p, "textItems")
  THEN NullNode
  ELSE [tag |-> "<>",
        kids |-> [i \in 1..Len(p.textItems) |-> textSpan(p.textItems[i], i - 1)]]

-----------------------------------------------------------------------------
(* Inputs of NotionText *)

Str(chars) == [str |-> chars]

Annotations ==
  [bold : BOOLEAN, italic : BOOLEAN, strikethrough : BOOLEAN,
   underline : BOOLEAN, code : BOOLEAN, color : {"default", "red"}]

Plain == [bold |-> FALSE, italic |-> FALSE, strikethrough |-> FALSE,
          underline |-> FALSE, code |-> FALSE, color |-> "default"]

Hrefs == {Null, Str(<<"h">>)}

LinkOf(href) == IF href = Null THEN Null ELSE [url |-> href]

TextRun(content, href, ann) ==
  [type |-> "text", text |-> [content |-> content, link |-> LinkOf(href)],
   annotations |-> ann, plain_text |-> content, href |-> href]

EquationRun(expression, href, ann) ==
  [type |-> "equation", equation |-> [expression |-> expression],
   annotations |-> ann, plain_text |-> "x", href |-> href]

RunsWith(anns) ==
  {TextRun(c, h, a) : c \in {"a", "b"}, h \in Hrefs, a \in anns}
  \cup {EquationRun(e, h, a) : e \in {"x", "y^2"}, h \in Hrefs, a \in anns}

AllRuns == RunsWith(Annotations)

FewRuns == RunsWith({Plain, [Plain EXCEPT !.bold = TRUE, !.color = "red"]})

SeqsUpTo(S, n) == UNION {[1..k -> S] : k \in 0..n}

TextInputs ==
  {[absent |-> TRUE]}
  \cup {[textItems |-> s] : s \in SeqsUpTo(FewRuns, MaxRuns)}
  \cup {[textItems |-> <<r>>] : r \in AllRuns}

-----------------------------------------------------------------------------
(* NotionBlockRenderer *)

RECURSIVE NotionBlockRenderer(_)

isTableRow(blk) == Has(blk, "table_row") /\ blk.table_row # Undefined

textProps(value, f) ==
  IF Has(value, f) THEN [textItems |-> value[f]] ELSE [absent |-> TRUE]

renderBlocks(blocks) ==
  [i \in 1..Len(blocks) |-> NotionBlockRenderer([block |-> blocks[i]])]

\* value.children?.map(...)
optionalChildren(value) ==
  IF Has(value, "children") THEN renderBlocks(value.children) ELSE <<>>

\* value.children.map(...)
requiredChildren(value) ==
  IF Has(value, "children") THEN renderBlocks(value.children) ELSE <<Fault>>

renderRichText(tag, value) == El(tag, <<NotionText(textProps(value, "rich_text"))>>)

renderList(tag, value) == El(tag, requiredChildren(value))

renderListItem(value) ==
  El("li", <<NotionText(textProps(value, "rich_text"))>> \o optionalChildren(value))

renderToDo(id, value) ==
  El("div",
     <<[tag |-> "input", type |-> "checkbox", id |-> id] @@
         (IF Has(value, "checked") THEN [defaultChecked |-> value.checked] ELSE [tag |-> "input"]),
       With(El("label", <<NotionText(textProps(value, "rich_text"))>>), [htmlFor |-> id])>>)

renderToggle(value) ==
  El("details",
     <<El("summary", <<NotionText(textProps(value, "rich_text"))>>),
       El("div", optionalChildren(value))>>)

renderChildPage(value) ==
  El("p", IF Has(value, "title") THEN <<Text(value.title)>> ELSE <<>>)

\* a faulty variant of mediaSrc: the two branches are swapped
mediaSrc_swapped(value) ==
  IF Has(value, "type") /\ value.type = "external"
  THEN IF Has(value, "file")
       THEN (IF Has(value.file, "url") THEN value.file.url ELSE Undefined)
       ELSE Fault
  ELSE IF Has(value, "external")
       THEN (IF Has(value.external, "url") THEN value.external.url ELSE Undefined)
       ELSE Fault

\* value.type === 'external' ? value.external.url : value.file.url
mediaSrc(value) ==
  IF Has(value, "type") /\ value.type = "external"
  THEN IF Has(value, "external")
       THEN (IF Has(value.external, "url") THEN value.external.url ELSE Undefined)
       ELSE Fault
  ELSE IF Has(value, "file")
       THEN (IF Has(value.file, "url") THEN value.file.url ELSE Undefined)
       ELSE Fault

\* value.caption ? value.caption[0]?.plain_text : ''
mediaCaption(value) ==
  IF Has(value, "caption")
  THEN IF Len(value.caption) > 0 THEN [plain_text |-> value.caption[1].plain_text]
       ELSE Undefined
  ELSE [plain_text |-> ""]

captionKids(tag, caption) ==
  IF caption # Undefined /\ caption.plain_text # ""
  THEN <<El(tag, <<Text(caption.plain_text)>>)>>
  ELSE <<>>

PlaceholderSvg ==
  Str(<<"/", "p", "l", "a", "c", "e", "h", "o", "l", "d", "e", "r", ".", "s", "v", "g">>)

\* src={src || "/placeholder.svg"}
imageSrc(src) == IF src # Undefined /\ src.str # <<>> THEN src ELSE PlaceholderSvg

renderImage(value) ==
  LET src == mediaSrc(value)
      caption == mediaCaption(value)
  IN IF src = Fault \/ ~Has(value, "size")
     THEN Fault
     ELSE El("figure",
             <<[tag |-> "Image", src |-> imageSrc(src), alt |-> caption,
                width |-> value.size.width, height |-> value.size.height]>>
             \o captionKids("figcaption", caption))

\* src_file.split('/') ... [length - 1] ... .split('?')[0]
fileDisplayName(src_file) ==
  LET splitSourceArray == split(src_file, "/")
      lastElementInArray == splitSourceArray[Len(splitSourceArray)]
  IN split(lastElementInArray, "?")[1]

renderFile(value) ==
  LET src_file == mediaSrc(value)
      caption_file == mediaCaption(value)
  IN IF src_file = Fault \/ src_file = Undefined
     THEN Fault
     ELSE El("figure",
             <<El("div",
                  <<El("span", <<Text("paperclip")>>),
                    [tag |-> "Link", href |-> src_file, passHref |-> TRUE,
                     kids |-> <<UrlText(fileDisplayName(src_file.str))>>]>>)>>
             \o captionKids("figcaption", caption_file))

renderQuote(value) ==
  IF Has(value, "rich_text") /\ Len(value.rich_text) > 0
  THEN [tag |-> "Quote", quote |-> value.rich_text[1].plain_text]
  ELSE Fault

renderCode(value) ==
  IF Has(value, "rich_text") /\ Len(value.rich_text) > 0
  THEN With(El("pre", <<El("code", <<Text(value.rich_text[1].plain_text)>>)>>),
            IF Has(value, "language") THEN [language |-> value.language] ELSE [tag |-> "pre"])
  ELSE Fault

renderBookmark(value) ==
  IF Has(value, "url")
  THEN [tag |-> "a", href |-> value.url, target |-> "_blank", rel |-> "noopener noreferrer",
        className |-> {"text-blue-600 hover:underline dark:text-blue-400"},
        kids |-> <<UrlText(value.url.str)>>]
  ELSE [tag |-> "a", target |-> "_blank", rel |-> "noopener noreferrer",
        className |-> {"text-blue-600 hover:underline dark:text-blue-400"},
        kids |-> <<>>]

calloutIcon(value) ==
  IF Has(value, "icon")
  THEN <<El("div", IF value.icon.type = "emoji"
                   THEN (IF Has(value.icon, "emoji") THEN <<Text(value.icon.emoji)>> ELSE <<>>)
                   ELSE <<Text("pushpin")>>)>>
  ELSE <<>>

renderCallout(value) ==
  El("div",
     calloutIcon(value)
     \o <<El("div", <<NotionText(textProps(value, "rich_text"))>> \o optionalChildren(value))>>)

renderEquation(value) ==
  El("div", <<[tag |-> "BlockMath",
               data |-> IF Has(value, "expression") THEN value.expression ELSE ""]>>)

\* row.table_row.cells.map((cell, cellIndex) => <th|td key={cellIndex}>...)
tableCells(tag, row) ==
  IF ~Has(row, "table_row") \/ ~IsObject(row.table_row) \/ ~Has(row.table_row, "cells")
  THEN <<Fault>>
  ELSE [i \in 1..Len(row.table_row.cells) |->
          With(El(tag, <<NotionText([textItems |-> row.table_row.cells[i]])>>),
               [key |-> i - 1])]

\* value.has_column_header && <thead><tr>{value.children[0].table_row.cells.map(...)}</tr></thead>
tableHead(value) ==
  IF Has(value, "has_column_header") /\ value.has_column_header
  THEN IF Has(value, "children") /\ Len(value.children) > 0
       THEN <<El("thead", <<El("tr", tableCells("th", value.children[1]))>>)>>
       ELSE <<Fault>>
  ELSE <<>>

\* a faulty variant of tableBodyChildren: the header row is not sliced off
tableBodyChildren_noSlice(value) == value.children

\* value.children.slice(value.has_column_header ? 1 : 0)
tableBodyChildren(value) ==
  IF Has(value, "has_column_header") /\ value.has_column_header
  THEN SubSeq(value.children, 2, Len(value.children))
  ELSE value.children

\* isTableRow(row) ? <tr key={rowIndex}>...</tr> : null
RECURSIVE tableRows(_, _)
tableRows(rows, rowIndex) ==
  IF rows = <<>>
  THEN <<>>
  ELSE (IF isTableRow(rows[1])
        THEN <<With(El("tr", tableCells("td", rows[1])), [key |-> rowIndex])>>
        ELSE <<>>)
       \o tableRows(Tail(rows), rowIndex + 1)

tableBody(value) ==
  IF Has(value, "children")
  THEN El("tbody", tableRows(tableBodyChildren(value), 0))
  ELSE Fault

renderTable(value) ==
  El("div", <<El("div", <<El("table", tableHead(value) \o <<tableBody(value)>>)>>)>>)

\* column.children?.map(...)
columnKids(column) == optionalChildren(column)

renderColumnList(value) ==
  El("div",
     IF Has(value, "children")
     THEN [i \in 1..Len(value.children) |->
             With(El("div", columnKids(value.children[i])), [key |-> i - 1])]
     ELSE <<>>)

renderColumn(value) == El("<>", optionalChildren(value))

\* a faulty variant of unsupportedName: the sentinel is named like any other type
unsupportedName_literal(type) == type

unsupportedName(type) ==
  IF type = "unsupported" THEN "unsupported by Notion API" ELSE type

renderDefault(type) ==
  [tag |-> "p", className |-> {"text-red-600 dark:text-red-400"},
   kids |-> <<Text("Unsupported block ("), Text(unsupportedName(type)), Text(")")>>]

DispatchTypes ==
  {"paragraph", "heading_1", "heading_2", "heading_3", "bulleted_list", "numbered_list",
   "bulleted_list_item", "numbered_list_item", "to_do", "toggle", "child_page", "image",
   "divider", "quote", "code", "file", "bookmark", "callout", "equation", "table",
   "column_list", "column"}

NotionBlockRenderer(p) ==
  LET type == p.block.type
      id == p.block.id
      value == IF Has(p.block, type) THEN p.block[type] ELSE Undefined
  IN IF type = "divider" THEN [tag |-> "hr", key |-> id]
     ELSE IF type \notin DispatchTypes THEN renderDefault(type)
     ELSE IF ~IsObject(value) THEN Fault
     ELSE CASE type = "paragraph" -> renderRichText("p", value)
            [] type = "heading_1" -> renderRichText("h1", value)
            [] type = "heading_2" -> renderRichText("h2", value)
            [] type = "heading_3" -> renderRichText("h3", value)
            [] type = "bulleted_list" -> renderList("ul", value)
            [] type = "numbered_list" -> renderList("ol", value)
            [] type \in {"bulleted_list_item", "numbered_list_item"} -> renderListItem(value)
            [] type = "to_do" -> renderToDo(id, value)
            [] type = "toggle" -> renderToggle(value)
            [] type = "child_page" -> renderChildPage(value)
            [] type = "image" -> renderImage(value)
            [] type = "quote" -> renderQuote(value)
            [] type = "code" -> renderCode(value)
            [] type = "file" -> renderFile(value)
            [] type = "bookmark" -> renderBookmark(value)
            [] type = "callout" -> renderCallout(value)
            [] type = "equation" -> renderEquation(value)
            [] type = "table" -> renderTable(value)
            [] type = "column_list" -> renderColumnList(value)
            [] type = "column" -> renderColumn(value)

-----------------------------------------------------------------------------
(* Inputs of NotionBlockRenderer *)

Block(type, id, payload) == [type |-> type, id |-> id] @@ (type :> payload)

RunA == TextRun("a", Null, Plain)
RunB == TextRun("b", Str(<<"h">>), [Plain EXCEPT !.bold = TRUE, !.color = "red"])

RichTexts == {<<>>, <<RunA>>, <<RunB, RunA>>}

OtherTypes == {"unsupported", "video", "embed", "table_row"}

UnsupportedBlocks ==
  {[type |-> t, id |-> "u"] : t \in OtherTypes}
  \cup {Block(t, "u", [rich_text |-> <<RunA>>]) : t \in OtherTypes}
  \cup {Block(t, "u", [cells |-> <<<<RunA>>>>]) : t \in OtherTypes}

TextTypes == {"paragraph", "heading_1", "heading_2", "heading_3"}

Urls == UNION {[1..k -> {"/", "?", "a"}] : k \in 0..MaxUrlLen}

LeafBlocks ==
  {Block(t, "t", [rich_text |-> rt]) : t \in TextTypes \cup {"quote"}, rt \in RichTexts}
  \cup {Block(t, "t", [color |-> "default"]) : t \in TextTypes \cup {"quote", "code"}}
  \cup {[type |-> t, id |-> "t"] : t \in TextTypes \cup {"divider", "equation", "to_do"}}
  \cup {Block("divider", "d", [color |-> "default"])}
  \cup {Block("to_do", "t", [rich_text |-> rt, checked |-> c]) : rt \in RichTexts, c \in BOOLEAN}
  \cup {Block("child_page", "c", [title |-> "a"]), Block("child_page", "c", [color |-> "default"])}
  \cup {Block("code", "c", [rich_text |-> rt, language |-> "ts"]) : rt \in RichTexts}
  \cup {Block("bookmark", "b", [url |-> Str(u)]) : u \in {<<>>, <<"a">>}}
  \cup {Block("bookmark", "b", [caption |-> <<>>])}
  \cup {Block("equation", "e", [expression |-> "x"])}

Captions == {[none |-> TRUE], [caption |-> <<>>], [caption |-> <<RunA>>]}

Size == [size |-> [width |-> 1, height |-> 1]]

\* the payload's branches: the matching one, with or without the other one
MediaPayloads ==
  {[type |-> "external", external |-> [url |-> Str(u)]] : u \in Urls}
  \cup {[type |-> "external", external |-> [url |-> Str(u)], file |-> [url |-> Str(<<"a">>)]] : u \in Urls}
  \cup {[type |-> "file", file |-> [url |-> Str(u)]] : u \in Urls}
  \cup {[type |-> "file", file |-> [url |-> Str(u)], external |-> [url |-> Str(<<"a">>)]] : u \in Urls}
  \cup {[type |-> "external"], [type |-> "file"], [type |-> "file", file |-> [expiry_time |-> "t"]]}

WithCaption(payload, c) == IF Has(c, "caption") THEN payload @@ [caption |-> c.caption] ELSE payload

MediaBlocks ==
  {Block(t, "m", WithCaption(m @@ Size, c)) : t \in {"image", "file"}, m \in MediaPayloads, c \in Captions}
  \cup {Block("image", "m", m) : m \in {[type |-> "file", file |-> [url |-> Str(<<"a">>)]]}}

Cells == {<<RunA>>, <<RunB>>}

RowBlock(cells) == Block("table_row", "r", [cells |-> cells])

\* rows as wide as the table, and a row without cells
RowBlocks == {RowBlock(cs) : cs \in [1..MaxCells -> Cells] \cup {<<>>}}

NonRowBlocks ==
  {Block("paragraph", "r", [rich_text |-> <<RunA>>]),
   [type |-> "table_row", id |-> "r", table_row |-> Undefined],
   [type |-> "table_row", id |-> "r", table_row |-> Null]}

TableBlocks ==
  {Block("table", "t", [table_width |-> MaxCells, has_column_header |-> h, has_row_header |-> FALSE,
                        children |-> cs]) :
     h \in BOOLEAN, cs \in SeqsUpTo(RowBlocks \cup NonRowBlocks, MaxRows)}
  \cup {Block("table", "t", [table_width |-> MaxCells, has_column_header |-> h, has_row_header |-> FALSE]) :
          h \in BOOLEAN}

Para(id, run) == Block("paragraph", id, [rich_text |-> <<run>>])

KidLeaves == {Para("k1", RunA), Para("k2", RunB)}

WithChildren(payload, cs) == payload @@ [children |-> cs]

NestedKids ==
  KidLeaves
  \cup {[type |-> "divider", id |-> "k3"]}
  \cup {Block("toggle", "k4", [rich_text |-> <<RunA>>, children |-> <<k>>]) : k \in KidLeaves}
  \cup {Block("bulleted_list", "k5",
              [children |-> <<Block("bulleted_list_item", "k6", [rich_text |-> <<RunB>>, children |-> <<k>>])>>]) :
          k \in KidLeaves}
  \cup {Block("column_list", "k7", [children |-> <<Block("column", "k8", [children |-> <<k>>])>>]) :
          k \in KidLeaves}

ContainerPayloads ==
  [bulleted_list |-> {[color |-> "default"]},
   numbered_list |-> {[color |-> "default"]},
   bulleted_list_item |-> {[rich_text |-> <<RunA>>]},
   numbered_list_item |-> {[rich_text |-> <<RunA>>]},
   toggle |-> {[rich_text |-> <<RunA>>]},
   callout |-> {[rich_text |-> <<RunA>>],
                [rich_text |-> <<RunA>>, icon |-> [type |-> "emoji", emoji |-> "e"]],
                [rich_text |-> <<RunA>>, icon |-> [type |-> "external"]]},
   column |-> {[color |-> "default"]}]

ContainerBlocks ==
  UNION {{Block(t, "c", pl) : pl \in ContainerPayloads[t]}
         \cup {Block(t, "c", WithChildren(pl, cs)) :
                 pl \in ContainerPayloads[t], cs \in SeqsUpTo(NestedKids, MaxChildren)} :
         t \in DOMAIN ContainerPayloads}

\* a column holds its children in its payload (type Block: column?: {children})
\* or, as the column_list case reads them, as a property of the column block
Columns ==
  {[type |-> "column", id |-> "col"], Block("column", "col", [color |-> "default"])}
  \cup {Block("column", "col", [children |-> cs]) : cs \in SeqsUpTo(KidLeaves, MaxChildren)}
  \cup {[type |-> "column", id |-> "col", children |-> cs] : cs \in SeqsUpTo(KidLeaves, MaxChildren)}

ColumnListBlocks ==
  {Block("column_list", "cl", [color |-> "default"])}
  \cup {Block("column_list", "cl", [children |-> cols]) : cols \in SeqsUpTo(Columns, MaxChildren)}

-----------------------------------------------------------------------------
(* The state machine: the host invokes a render function on props it       *)
(* supplies, and discards the result when the render pass ends             *)

Init ==
  /\ op = "idle"
  /\ props = [absent |-> TRUE]
  /\ result = NullNode

RenderText ==
  \E p \in TextInputs :
    /\ op = "idle"
    /\ op' = "NotionText"
    /\ props' = p
    /\ result' = NotionText(p)

Rendered(b) ==
  /\ op' = "NotionBlockRenderer"
  /\ props' = [block |-> b]
  /\ result' = NotionBlockRenderer([block |-> b])

RenderUnsupported == op = "idle" /\ \E b \in UnsupportedBlocks : Rendered(b)

RenderLeaf == op = "idle" /\ \E b \in LeafBlocks : Rendered(b)

RenderMedia == op = "idle" /\ \E b \in MediaBlocks : Rendered(b)

RenderTable == op = "idle" /\ \E b \in TableBlocks : Rendered(b)

RenderContainer == op = "idle" /\ \E b \in ContainerBlocks : Rendered(b)

RenderColumnList == op = "idle" /\ \E b \in ColumnListBlocks : Rendered(b)

EndPass ==
  /\ op # "idle"
  /\ op' = "idle"
  /\ props' = [absent |-> TRUE]
  /\ result' = NullNode

Next ==
  \/ RenderText
  \/ RenderUnsupported
  \/ RenderLeaf
  \/ RenderMedia
  \/ RenderTable
  \/ RenderContainer
  \/ RenderColumnList
  \/ EndPass

Spec == Init /\ [][Next]_vars

-----------------------------------------------------------------------------
(* Properties *)

IsBlockRender == op = "NotionBlockRenderer"
IsTextRender == op = "NotionText"

TheBlock == props.block
TheValue == TheBlock[TheBlock.type]
HasValue == Has(TheBlock, TheBlock.type)

TextsOf(frag) == {frag.kids[i].data : i \in DOMAIN frag.kids}

\* C1: a block whose type is not in the dispatch table renders, without a
\* fault, the placeholder paragraph; its text names the literal type, except
\* for the type "unsupported", where it carries the fixed explanation and not
\* the type as the name; with or without a payload keyed by the type.
C1_UnsupportedPlaceholder ==
  (IsBlockRender /\ TheBlock.type \notin DispatchTypes) =>
    /\ result # Fault
    /\ result.tag = "p"
    /\ "Unsupported block (" \in TextsOf(result)
    /\ TheBlock.type # "unsupported" => TheBlock.type \in TextsOf(result)
    /\ TheBlock.type = "unsupported" =>
         /\ "unsupported by Notion API" \in TextsOf(result)
         /\ "unsupported" \notin TextsOf(result)

C1_Witness ==
  /\ IsBlockRender
  /\ TheBlock.type = "unsupported"
  /\ ~HasValue
  /\ result.tag = "p"
  /\ "unsupported by Notion API" \in TextsOf(result)

IsTable == IsBlockRender /\ TheBlock.type = "table" /\ HasValue /\ Has(TheValue, "children")

IsRowBlock(b) ==
  /\ Has(b, "table_row")
  /\ IsObject(b.table_row)
  /\ Has(b.table_row, "cells")

AllRowBlocks == \A i \in DOMAIN TheValue.children : IsRowBlock(TheValue.children[i])

TableFrag == result.kids[1].kids[1]

\* the rich-text fragments of the cells of one rendered row
CellTexts(tr) == [i \in DOMAIN tr.kids |-> tr.kids[i].kids[1]]

ExpectedCellTexts(row) ==
  [i \in DOMAIN row.table_row.cells |-> NotionText([textItems |-> row.table_row.cells[i]])]

\* C2: for a table whose children are all row blocks: with has_column_header
\* the header is exactly the cells of the first child, in cell order, and
\* the body is the remaining n-1 children in their order; without it there
\* is no header and the body is all n children in their order; each body
\* row has one cell fragment per input cell, in input order.  (With
\* has_column_header the claim speaks of a first child: n >= 1.)
C2_TableHeaderAndBody ==
  (IsTable /\ AllRowBlocks /\ (TheValue.has_column_header => Len(TheValue.children) >= 1)) =>
    /\ result # Fault
    /\ LET n == Len(TheValue.children)
           kids == TableFrag.kids
       IN IF TheValue.has_column_header
          THEN /\ Len(kids) = 2
               /\ kids[1].tag = "thead"
               /\ Len(kids[1].kids) = 1
               /\ \A i \in DOMAIN kids[1].kids[1].kids : kids[1].kids[1].kids[i].tag = "th"
               /\ CellTexts(kids[1].kids[1]) = ExpectedCellTexts(TheValue.children[1])
               /\ kids[2].tag = "tbody"
               /\ Len(kids[2].kids) = n - 1
               /\ \A j \in 1..(n - 1) :
                    /\ kids[2].kids[j].tag = "tr"
                    /\ \A i \in DOMAIN kids[2].kids[j].kids : kids[2].kids[j].kids[i].tag = "td"
                    /\ CellTexts(kids[2].kids[j]) = ExpectedCellTexts(TheValue.children[j + 1])
          ELSE /\ Len(kids) = 1
               /\ kids[1].tag = "tbody"
               /\ Len(kids[1].kids) = n
               /\ \A j \in 1..n :
                    /\ kids[1].kids[j].tag = "tr"
                    /\ \A i \in DOMAIN kids[1].kids[j].kids : kids[1].kids[j].kids[i].tag = "td"
                    /\ CellTexts(kids[1].kids[j]) = ExpectedCellTexts(TheValue.children[j])

C2_Witness ==
  /\ IsTable
  /\ AllRowBlocks
  /\ TheValue.has_column_header
  /\ Len(TheValue.children) = 3
  /\ Len(TheValue.children[1].table_row.cells) = 2
  /\ TheValue.children[2] # TheValue.children[3]
  /\ TheValue.children[1] # TheValue.children[2]
  /\ result # Fault
  /\ Len(TableFrag.kids[1].kids[1].kids) = 2
  /\ Len(TableFrag.kids[2].kids) = 2

RECURSIVE Filter(_, _)
Filter(seq, keep) ==
  IF seq = <<>> THEN <<>>
  ELSE (IF 1 \in keep THEN <<seq[1]>> ELSE <<>>)
       \o Filter(Tail(seq), {k - 1 : k \in keep \ {1}})

\* the children of the table that are not the header and pass the shape check
BodyChildren ==
  LET cs == TheValue.children
      first == IF TheValue.has_column_header THEN 2 ELSE 1
  IN Filter(cs, {i \in first..Len(cs) : isTableRow(cs[i])})

\* C3: for a table with either value of has_column_header and any sequence
\* of children (empty, or with a first child that is no row block),
\* rendering does not fault, a child failing the shape check contributes no
\* row, and the other children keep their relative order.
C3_TableSkipsNonRows ==
  IsTable =>
    /\ result # Fault
    /\ LET tbody == TableFrag.kids[Len(TableFrag.kids)]
       IN /\ Len(tbody.kids) = Len(BodyChildren)
          /\ \A j \in DOMAIN tbody.kids :
               CellTexts(tbody.kids[j]) = ExpectedCellTexts(BodyChildren[j])

\* the payload's matching branch is well formed, and so is the rest of it
WellFormedMedia(value) ==
  /\ Has(value, "type")
  /\ value.type \in {"external", "file"}
  /\ Has(value, value.type)
  /\ Has(value[value.type], "url")
  /\ Has(value, "size")

ChildrenTypes ==
  {"toggle", "bulleted_list_item", "numbered_list_item", "bulleted_list", "numbered_list",
   "table", "column_list", "column", "callout"}

LacksOptionalField ==
  \/ TheBlock.type \in {"image", "file"} /\ WellFormedMedia(TheValue) /\ ~Has(TheValue, "caption")
  \/ TheBlock.type \in ChildrenTypes /\ ~Has(TheValue, "children")
  \/ TheBlock.type = "callout" /\ ~Has(TheValue, "icon")

\* C4: for the block types that read a caption, children or an icon,
\* rendering a block whose payload lacks that optional field never faults.
C4_MissingOptionalNeverFaults ==
  (IsBlockRender /\ TheBlock.type \in DispatchTypes /\ HasValue /\ LacksOptionalField) =>
    result # Fault

\* the fragment that holds the rendered children of a container
ChildHolder ==
  CASE TheBlock.type = "bulleted_list" -> result.kids
    [] TheBlock.type = "toggle" -> result.kids[2].kids
    [] TheBlock.type = "callout" -> Tail(result.kids[Len(result.kids)].kids)

PayloadColumn(c) == Has(c, "column") /\ Has(c.column, "children") /\ ~Has(c, "children")

\* C5: bulleted_list, toggle, callout and column_list render every child
\* (for column_list every child held in each column's payload) exactly
\* once, in input order, at the input's nesting depth.
C5_ContainersPreserveChildren ==
  /\ (IsBlockRender /\ TheBlock.type \in {"bulleted_list", "toggle", "callout"}
        /\ HasValue /\ Has(TheValue, "children")) =>
       /\ result # Fault
       /\ ChildHolder = renderBlocks(TheValue.children)
  /\ (IsBlockRender /\ TheBlock.type = "column_list" /\ HasValue /\ Has(TheValue, "children")
        /\ \A i \in DOMAIN TheValue.children : PayloadColumn(TheValue.children[i])) =>
       /\ result # Fault
       /\ Len(result.kids) = Len(TheValue.children)
       /\ \A i \in DOMAIN TheValue.children :
            result.kids[i].kids = renderBlocks(TheValue.children[i].column.children)

HasRuns == IsTextRender /\ Has(props, "textItems")

\* what a span shows: the content itself, or the content inside its link
ContentOf(span) == IF span.kids[1].tag = "a" THEN span.kids[1].kids[1] ELSE span.kids[1]

\* C6: NotionText returns null for an absent input and a present, empty
\* fragment sequence for an empty one; n runs give n fragments, the i-th
\* from the i-th run: its plain text (text run) or its equation expression
\* (equation run).
C6_TextFragmentsInOrder ==
  IsTextRender =>
    IF ~Has(props, "textItems")
    THEN result = NullNode
    ELSE /\ result # NullNode
         /\ result.tag = "<>"
         /\ Len(result.kids) = Len(props.textItems)
         /\ \A i \in DOMAIN props.textItems :
              LET run == props.textItems[i]
                  c == ContentOf(result.kids[i])
              IN IF run.type = "text"
                 THEN c.tag = "#text" /\ c.data = run.plain_text
                 ELSE c.tag = "InlineMath" /\ c.data = run.equation.expression

C6_Witness ==
  /\ HasRuns
  /\ Len(props.textItems) = 2
  /\ props.textItems[1].type = "equation"
  /\ props.textItems[1].equation.expression # props.textItems[1].plain_text
  /\ props.textItems[2].type = "text"
  /\ Len(result.kids) = 2
  /\ ContentOf(result.kids[1]).tag = "InlineMath"

CarriesHyperlink(run) ==
  IF run.type = "text" THEN run.text.link # Null ELSE run.href # Null

\* C7: a run's content is wrapped in exactly one link fragment to the
\* run's hyperlink iff the run carries one, and that link carries the
\* noopener/noreferrer protection, as the bookmark link does.
C7_LinkWrapperIsSafe ==
  HasRuns =>
    \A i \in DOMAIN props.textItems :
      LET run == props.textItems[i]
          kid == result.kids[i].kids[1]
      IN /\ Len(result.kids[i].kids) = 1
         /\ CarriesHyperlink(run) <=> kid.tag = "a"
         /\ kid.tag = "a" =>
              /\ kid.href = run.href
              /\ kid.kids[1].tag # "a"
              /\ Has(kid, "rel")
              /\ kid.rel = "noopener noreferrer"

IsMedia ==
  /\ IsBlockRender
  /\ TheBlock.type \in {"image", "file"}
  /\ HasValue
  /\ WellFormedMedia(TheValue)

ResolvedUrl == TheValue[TheValue.type].url

ImageFrag == result.kids[1]
FileLink == result.kids[1].kids[2]

\* C8 (as stated): the resolved URL (external.url for "external", file.url
\* for "file", whether or not the other branch is present) is the image
\* source / the file link target.
C8_ResolvedUrlIsUsed ==
  IsMedia =>
    /\ result # Fault
    /\ TheBlock.type = "image" => ImageFrag.src = ResolvedUrl
    /\ TheBlock.type = "file" => FileLink.href = ResolvedUrl

\* C8 (amended): the resolved URL is the file link target, and the image
\* source unless it is the empty string, where the image source is
\* "/placeholder.svg".
C8_ResolvedUrlOrPlaceholder ==
  IsMedia =>
    /\ result # Fault
    /\ TheBlock.type = "image" =>
         /\ ImageFrag.tag = "Image"
         /\ ResolvedUrl.str # <<>> => ImageFrag.src = ResolvedUrl
         /\ ResolvedUrl.str = <<>> => ImageFrag.src = PlaceholderSvg
    /\ TheBlock.type = "file" => FileLink.tag = "Link" /\ FileLink.href = ResolvedUrl

C8_Witness ==
  /\ IsMedia
  /\ TheBlock.type = "image"
  /\ TheValue.type = "external"
  /\ ~Has(TheValue, "file")
  /\ ResolvedUrl.str # <<>>
  /\ result # Fault
  /\ ImageFrag.src = TheValue.external.url

Positions(s, ch) == {i \in 1..Len(s) : s[i] = ch}

Max(S) == CHOOSE m \in S : \A k \in S : k <= m
Min(S) == CHOOSE m \in S : \A k \in S : m <= k

\* the path of a URL: everything before its query string
PathOf(url) ==
  IF Positions(url, "?") = {} THEN url ELSE SubSeq(url, 1, Min(Positions(url, "?")) - 1)

\* the last segment of a path that has a '/'
NameOf(url) ==
  LET path == PathOf(url) IN SubSeq(path, Max(Positions(path, "/")) + 1, Len(path))

\* C9: the displayed name of a file is the last path segment of the
\* resolved URL without its query string: <name> for <prefix>/<name>?<query>
\* whatever the query (also one with '/' or '?' in it), and the text after
\* the last '/' for a URL without a query string.
C9_FileDisplayName ==
  (IsMedia /\ TheBlock.type = "file" /\ Positions(PathOf(ResolvedUrl.str), "/") # {}) =>
    /\ result # Fault
    /\ FileLink.kids = <<UrlText(NameOf(ResolvedUrl.str))>>

Traits ==
  [bold |-> "font-bold",
   italic |-> "italic",
   underline |-> "underline",
   strikethrough |-> "line-through",
   code |-> "font-mono text-sm bg-gray-200 dark:bg-gray-700 text-gray-800 dark:text-gray-200 px-1 py-0.5 rounded"]

\* C10: the fragment of a run carries the style trait of each of bold,
\* italic, underline, strikethrough, code iff that flag is true, whatever
\* the other flags, and a color override equal to the run's color iff the
\* color is not "default"; with a hyperlink the traits and the color are on
\* the fragment that wraps the link.
C10_TraitsAndColor ==
  HasRuns =>
    \A i \in DOMAIN props.textItems :
      LET run == props.textItems[i]
          span == result.kids[i]
      IN /\ span.tag = "span"
         /\ \A flag \in DOMAIN Traits : Traits[flag] \in span.className <=> run.annotations[flag]
         /\ span.className \subseteq {Traits[flag] : flag \in DOMAIN Traits}
         /\ run.annotations.color # "default" => span.style = {<<"color", run.annotations.color>>}
         /\ run.annotations.color = "default" => span.style = {}
         /\ run.href # Null => span.kids[1].tag = "a" /\ ~Has(span.kids[1], "style")

C10_Witness ==
  /\ HasRuns
  /\ Len(props.textItems) = 1
  /\ props.textItems[1].href # Null
  /\ props.textItems[1].annotations.color = "red"
  /\ \A flag \in DOMAIN Traits : props.textItems[1].annotations[flag]
  /\ Cardinality(result.kids[1].className) = 5
  /\ result.kids[1].style = {<<"color", "red">>}
  /\ result.kids[1].kids[1].tag = "a"

====
